---- MODULE Spec2Model ----
(***************************************************************************)
(* State-machine model of the CredentialRegistry contract                  *)
(* (contracts/contracts/CredentialRegistry.sol) together with the part of  *)
(* the frontend (frontend/src/App.jsx, frontend/src/contract.js) that      *)
(* submits calls to it.                                                    *)
(*                                                                         *)
(* The contract inherits OpenZeppelin's AccessControl; _grantRole,         *)
(* _revokeRole, onlyRole, hasRole, grantRole, revokeRole and renounceRole  *)
(* follow that library (v5: pragma ^0.8.20).                               *)
(***************************************************************************)
EXTENDS Integers, Sequences, FiniteSets, TLC

\* ------------------------------------------------------------------ bounds
MaxTx == 3        \* successful state-changing transactions in a behaviour
MaxBlock == 2     \* highest block number
MaxDelta == 2     \* largest timestamp step between two blocks
DeployTime == 5   \* timestamp of the block that deploys the contract

\* ------------------------------------------------------------ value sets
Addresses == {"A", "B"}
ZeroAddress == "0x0"
DocHashes == {"h1", "h2"}

\* m.getAccount(0): the deployer and the constructor's admin argument
Admin == "A"

DEFAULT_ADMIN_ROLE == "DEFAULT_ADMIN_ROLE"
ISSUER_ROLE == "ISSUER_ROLE"
Roles == {DEFAULT_ADMIN_ROLE, ISSUER_ROLE}

\* revert reasons
Ok == "ok"
AlreadyIssued == "already issued"
NotIssued == "not issued"
Unauthorized == "AccessControlUnauthorizedAccount"
BadConfirmation == "AccessControlBadConfirmation"

VARIABLES
    roles,           \* AccessControl._roles: role -> set of members
    records,         \* mapping(bytes32 => Record)
    log,             \* the events the contract has emitted, in order
    blockNumber,     \* block.number
    blockTimestamp,  \* block.timestamp, a uint256 as [high, low]: high*2^64+low
    calls,           \* per kind: how many state-changing transactions succeeded
    last,            \* outcome of the most recent call in the current block
    flow             \* the frontend's Sign & Issue handler: position and status

vars == <<roles, records, log, blockNumber, blockTimestamp, calls, last, flow>>

\* ---------------------------------------------------------------- values
\* uint64(x): the low 64 bits of a uint256
Uint64(x) == x.low

Record(issuedAt, revoked, issuer) ==
    [issuedAt |-> issuedAt, revoked |-> revoked, issuer |-> issuer]

\* the value of an unwritten mapping slot
EmptyRecord == Record(0, FALSE, ZeroAddress)

\* position of the next log inside the current block
LogIndex(l) == Cardinality({i \in DOMAIN l : l[i].blockNumber = blockNumber})

\* mutant: the event is not emitted
Emit_dropped(l, name, args) == l

Emit(l, name, args) ==
    Append(l, [name |-> name, args |-> args,
               blockNumber |-> blockNumber, index |-> LogIndex(l)])

Receipt(op, sender, args, status, ret) ==
    [op |-> op, sender |-> sender, args |-> args, status |-> status,
     ret |-> ret]

\* credential transitions and role-table transitions
Kinds == {"credential", "role"}
Kind(op) == IF op \in {"issue", "revoke"} THEN "credential" ELSE "role"

\* the number of successful state-changing transactions so far
TxCount == calls["credential"] + calls["role"]

\* ---------------------------------------------------------- AccessControl
hasRole(role, account) == account \in roles[role]

\* mutant: the modifier lets every caller through
onlyRole_open(role, account) == TRUE

onlyRole(role, account) == hasRole(role, account)

\* every role's admin role is DEFAULT_ADMIN_ROLE (never changed by the contract)
getRoleAdmin(role) == DEFAULT_ADMIN_ROLE

\* _grantRole: adds the member and emits RoleGranted only when it was absent
GrantRoleIn(r, role, account) == [r EXCEPT ![role] = @ \cup {account}]
GrantRoleLog(r, l, role, account, sender) ==
    IF account \in r[role] THEN l
    ELSE Emit(l, "RoleGranted", <<role, account, sender>>)

\* _revokeRole: removes the member and emits RoleRevoked only when it was present
\* mutant: the member is left in the role
RevokeRoleIn_kept(r, role, account) == r

RevokeRoleIn(r, role, account) == [r EXCEPT ![role] = @ \ {account}]
RevokeRoleLog(r, l, role, account, sender) ==
    IF account \in r[role] THEN Emit(l, "RoleRevoked", <<role, account, sender>>)
    ELSE l

\* a call that reverts: nothing but its outcome is observable
Revert(op, sender, args, reason) ==
    /\ last' = Receipt(op, sender, args, reason, <<>>)
    /\ UNCHANGED <<roles, records, log, blockNumber, blockTimestamp, calls,
                   flow>>

\* a state-changing call that succeeds is recorded in the chain
Applied(op, sender, args) ==
    /\ TxCount < MaxTx
    /\ calls' = [calls EXCEPT ![Kind(op)] = @ + 1]
    /\ last' = Receipt(op, sender, args, Ok, <<>>)
    /\ UNCHANGED <<blockNumber, blockTimestamp, flow>>

\* ------------------------------------------------------ frontend handler
NoFile == "no file"
NoSig == [signer |-> ZeroAddress, digest |-> <<>>]
NoTx == "no transaction"

\* the Sign & Issue form and its handler before the first click: nothing
\* entered, no status shown, no await pending
Idle ==
    [pc |-> "idle", status |-> "", wallet |-> "none", signer |-> ZeroAddress,
     chainId |-> "", studentName |-> "", course |-> "", structFile |-> NoFile,
     upload |-> "none", value |-> [docHash |-> ""], signature |-> "none",
     sig |-> NoSig, tx |-> NoTx]

\* ------------------------------------------------------------ constructor
\* mutant: the constructor grants DEFAULT_ADMIN_ROLE only
Init_adminOnly ==
    /\ blockNumber = 1
    /\ blockTimestamp = [high |-> 0, low |-> DeployTime]
    /\ roles = GrantRoleIn([r \in Roles |-> {}], DEFAULT_ADMIN_ROLE, Admin)
    /\ records = [h \in DocHashes |-> EmptyRecord]
    /\ log = <<[name |-> "RoleGranted",
                args |-> <<DEFAULT_ADMIN_ROLE, Admin, Admin>>,
                blockNumber |-> 1, index |-> 0]>>
    /\ calls = [k \in Kinds |-> 0]
    /\ last = Receipt("constructor", Admin, <<Admin>>, Ok, <<>>)
    /\ flow = Idle

Init ==
    /\ blockNumber = 1
    /\ blockTimestamp = [high |-> 0, low |-> DeployTime]
    /\ roles = GrantRoleIn(GrantRoleIn([r \in Roles |-> {}],
                                       DEFAULT_ADMIN_ROLE, Admin),
                           ISSUER_ROLE, Admin)
    /\ records = [h \in DocHashes |-> EmptyRecord]
    /\ log = <<[name |-> "RoleGranted",
                args |-> <<DEFAULT_ADMIN_ROLE, Admin, Admin>>,
                blockNumber |-> 1, index |-> 0],
               [name |-> "RoleGranted",
                args |-> <<ISSUER_ROLE, Admin, Admin>>,
                blockNumber |-> 1, index |-> 1]>>
    /\ calls = [k \in Kinds |-> 0]
    /\ last = Receipt("constructor", Admin, <<Admin>>, Ok, <<>>)
    /\ flow = Idle

\* ------------------------------------------------------- admin governance
\* mutant: the function is gated by ISSUER_ROLE instead of DEFAULT_ADMIN_ROLE
addIssuer_byIssuer(sender, account) ==
    IF ~onlyRole(ISSUER_ROLE, sender)
    THEN Revert("addIssuer", sender, <<account>>, Unauthorized)
    ELSE /\ roles' = GrantRoleIn(roles, ISSUER_ROLE, account)
         /\ log' = GrantRoleLog(roles, log, ISSUER_ROLE, account, sender)
         /\ UNCHANGED records
         /\ Applied("addIssuer", sender, <<account>>)

addIssuer(sender, account) ==
    IF ~onlyRole(DEFAULT_ADMIN_ROLE, sender)
    THEN Revert("addIssuer", sender, <<account>>, Unauthorized)
    ELSE /\ roles' = GrantRoleIn(roles, ISSUER_ROLE, account)
         /\ log' = GrantRoleLog(roles, log, ISSUER_ROLE, account, sender)
         /\ UNCHANGED records
         /\ Applied("addIssuer", sender, <<account>>)

\* mutant: removing an issuer also deletes the credentials it issued
removeIssuer_purging(sender, account) ==
    IF ~onlyRole(DEFAULT_ADMIN_ROLE, sender)
    THEN Revert("removeIssuer", sender, <<account>>, Unauthorized)
    ELSE /\ roles' = RevokeRoleIn(roles, ISSUER_ROLE, account)
         /\ log' = RevokeRoleLog(roles, log, ISSUER_ROLE, account, sender)
         /\ records' = [h \in DocHashes |->
                          IF records[h].issuer = account
                          THEN [issuedAt |-> 0, revoked |-> FALSE,
                                issuer |-> ZeroAddress]
                          ELSE records[h]]
         /\ Applied("removeIssuer", sender, <<account>>)

removeIssuer(sender, account) ==
    IF ~onlyRole(DEFAULT_ADMIN_ROLE, sender)
    THEN Revert("removeIssuer", sender, <<account>>, Unauthorized)
    ELSE /\ roles' = RevokeRoleIn(roles, ISSUER_ROLE, account)
         /\ log' = RevokeRoleLog(roles, log, ISSUER_ROLE, account, sender)
         /\ UNCHANGED records
         /\ Applied("removeIssuer", sender, <<account>>)

\* ------------------------------------- inherited AccessControl externals
grantRole(sender, role, account) ==
    IF ~onlyRole(getRoleAdmin(role), sender)
    THEN Revert("grantRole", sender, <<role, account>>, Unauthorized)
    ELSE /\ roles' = GrantRoleIn(roles, role, account)
         /\ log' = GrantRoleLog(roles, log, role, account, sender)
         /\ UNCHANGED records
         /\ Applied("grantRole", sender, <<role, account>>)

revokeRole(sender, role, account) ==
    IF ~onlyRole(getRoleAdmin(role), sender)
    THEN Revert("revokeRole", sender, <<role, account>>, Unauthorized)
    ELSE /\ roles' = RevokeRoleIn(roles, role, account)
         /\ log' = RevokeRoleLog(roles, log, role, account, sender)
         /\ UNCHANGED records
         /\ Applied("revokeRole", sender, <<role, account>>)

renounceRole(sender, role, callerConfirmation) ==
    IF callerConfirmation # sender
    THEN Revert("renounceRole", sender, <<role, callerConfirmation>>,
                BadConfirmation)
    ELSE /\ roles' = RevokeRoleIn(roles, role, callerConfirmation)
         /\ log' = RevokeRoleLog(roles, log, role, callerConfirmation, sender)
         /\ UNCHANGED records
         /\ Applied("renounceRole", sender, <<role, callerConfirmation>>)

\* ----------------------------------------------------------- main actions
\* mutant: the "already issued" requirement always passes
Unissued_always(docHash) == TRUE

\* mutant: a revoked credential counts as not issued, so it can be re-issued
Unissued_orRevoked(docHash) ==
    records[docHash].issuedAt = 0 \/ records[docHash].revoked

\* records[docHash].issuedAt == 0
Unissued(docHash) == records[docHash].issuedAt = 0

\* mutant: the record is stamped with block.number instead of block.timestamp
IssuedRecord_blockNumber(sender) == Record(blockNumber, FALSE, sender)

\* mutant: the issuer stored is the contract's admin, not msg.sender
IssuedRecord_admin(sender) == Record(Uint64(blockTimestamp), FALSE, Admin)

\* Record(uint64(block.timestamp), false, msg.sender)
IssuedRecord(sender) == Record(Uint64(blockTimestamp), FALSE, sender)

\* mutant: revoke overwrites the whole record
RevokedRecord_overwritten(r, sender) ==
    Record(Uint64(blockTimestamp), TRUE, sender)

\* mutant: revoke also stamps the record with the time of the revocation
RevokedRecord_restamped(r, sender) ==
    [r EXCEPT !.revoked = TRUE, !.issuedAt = Uint64(blockTimestamp)]

\* records[docHash].revoked = true
RevokedRecord(r, sender) == [r EXCEPT !.revoked = TRUE]

\* mutant: the "already issued" requirement is missing
issue_unguarded(sender, docHash) ==
    IF ~onlyRole(ISSUER_ROLE, sender)
    THEN Revert("issue", sender, <<docHash>>, Unauthorized)
    ELSE /\ records' = [records EXCEPT ![docHash] = IssuedRecord(sender)]
         /\ log' = Emit(log, "Issued",
                        <<docHash, sender, Uint64(blockTimestamp)>>)
         /\ UNCHANGED roles
         /\ Applied("issue", sender, <<docHash>>)

issue(sender, docHash) ==
    IF ~onlyRole(ISSUER_ROLE, sender)
    THEN Revert("issue", sender, <<docHash>>, Unauthorized)
    ELSE IF ~Unissued(docHash)
    THEN Revert("issue", sender, <<docHash>>, AlreadyIssued)
    ELSE /\ records' = [records EXCEPT ![docHash] = IssuedRecord(sender)]
         /\ log' = Emit(log, "Issued",
                        <<docHash, sender, Uint64(blockTimestamp)>>)
         /\ UNCHANGED roles
         /\ Applied("issue", sender, <<docHash>>)

\* mutant: the "not issued" requirement is missing
revoke_unguarded(sender, docHash) ==
    IF ~onlyRole(ISSUER_ROLE, sender)
    THEN Revert("revoke", sender, <<docHash>>, Unauthorized)
    ELSE /\ records' = [records EXCEPT ![docHash] = RevokedRecord(@, sender)]
         /\ log' = Emit(log, "Revoked",
                        <<docHash, sender, Uint64(blockTimestamp)>>)
         /\ UNCHANGED roles
         /\ Applied("revoke", sender, <<docHash>>)

\* mutant: the requirement tests the revoked flag instead of issuedAt
revoke_checksRevoked(sender, docHash) ==
    IF ~onlyRole(ISSUER_ROLE, sender)
    THEN Revert("revoke", sender, <<docHash>>, Unauthorized)
    ELSE IF records[docHash].revoked
    THEN Revert("revoke", sender, <<docHash>>, NotIssued)
    ELSE /\ records' = [records EXCEPT ![docHash] = RevokedRecord(@, sender)]
         /\ log' = Emit(log, "Revoked",
                        <<docHash, sender, Uint64(blockTimestamp)>>)
         /\ UNCHANGED roles
         /\ Applied("revoke", sender, <<docHash>>)

\* mutant: only the identity that issued a credential may revoke it
revoke_ownOnly(sender, docHash) ==
    IF ~onlyRole(ISSUER_ROLE, sender)
    THEN Revert("revoke", sender, <<docHash>>, Unauthorized)
    ELSE IF Unissued(docHash)
    THEN Revert("revoke", sender, <<docHash>>, NotIssued)
    ELSE IF records[docHash].issuer # sender
    THEN Revert("revoke", sender, <<docHash>>, Unauthorized)
    ELSE /\ records' = [records EXCEPT ![docHash] = RevokedRecord(@, sender)]
         /\ log' = Emit(log, "Revoked",
                        <<docHash, sender, Uint64(blockTimestamp)>>)
         /\ UNCHANGED roles
         /\ Applied("revoke", sender, <<docHash>>)

revoke(sender, docHash) ==
    IF ~onlyRole(ISSUER_ROLE, sender)
    THEN Revert("revoke", sender, <<docHash>>, Unauthorized)
    ELSE IF Unissued(docHash)
    THEN Revert("revoke", sender, <<docHash>>, NotIssued)
    ELSE /\ records' = [records EXCEPT ![docHash] = RevokedRecord(@, sender)]
         /\ log' = Emit(log, "Revoked",
                        <<docHash, sender, Uint64(blockTimestamp)>>)
         /\ UNCHANGED roles
         /\ Applied("revoke", sender, <<docHash>>)

\* the value verify(docHash) returns: (issued, revoked, issuedAt, issuer)
verify(docHash) ==
    LET r == records[docHash]
    IN  <<r.issuedAt # 0, r.revoked, r.issuedAt, r.issuer>>

\* an eth_call of verify by any account
CallVerify(sender, docHash) ==
    /\ last' = Receipt("verify", sender, <<docHash>>, Ok, verify(docHash))
    /\ UNCHANGED <<roles, records, log, blockNumber, blockTimestamp, calls,
                   flow>>

\* --------------------------------------------------------- signature path
\* the external functions the contract has: its own and AccessControl's
Functions == {"ISSUER_ROLE", "records", "addIssuer", "removeIssuer", "issue",
              "revoke", "verify", "DEFAULT_ADMIN_ROLE", "hasRole",
              "getRoleAdmin", "grantRole", "revokeRole", "renounceRole",
              "supportsInterface"}

\* a call whose selector matches no function of a contract without fallback
NoFunction == "no matching function"

CONTRACT_ADDRESS == "0x5FbDB2315678afecb367f032d93F642f64180aa3"

\* the chain the registry is deployed on, and another one
ChainIds == {"registry chain", "other chain"}

\* the typed-data domain the frontend builds on the wallet's network
Domain(chainId) ==
    [name |-> "CredentialRegistry", version |-> "1", chainId |-> chainId,
     verifyingContract |-> CONTRACT_ADDRESS]

\* mutant: the IPFS CID is left out of the signed type
CredentialTypes_noCid ==
    <<[name |-> "docHash", type |-> "bytes32"],
      [name |-> "studentName", type |-> "string"],
      [name |-> "course", type |-> "string"],
      [name |-> "issueDate", type |-> "uint64"]>>

\* types.Credential: the members of the signed struct, in order
CredentialTypes ==
    <<[name |-> "docHash", type |-> "bytes32"],
      [name |-> "studentName", type |-> "string"],
      [name |-> "course", type |-> "string"],
      [name |-> "issueDate", type |-> "uint64"],
      [name |-> "ipfsCid", type |-> "string"]>>

\* the EIP712Domain type that goes with the keys of domain
DomainTypes ==
    <<[name |-> "name", type |-> "string"],
      [name |-> "version", type |-> "string"],
      [name |-> "chainId", type |-> "uint256"],
      [name |-> "verifyingContract", type |-> "address"]>>

\* the fields of the Credential type, in order
CredentialFields == <<"docHash", "studentName", "course", "issueDate", "ipfsCid">>

FieldValues ==
    [docHash |-> DocHashes, studentName |-> {"Ana", "Rui"},
     course |-> {"Law", "Math"}, issueDate |-> {DeployTime, DeployTime + 1},
     ipfsCid |-> {"QmA", "QmB"}]

\* the value the frontend signs for a file with hash fileHash
Credential(fileHash) ==
    [docHash |-> fileHash, studentName |-> "Ana", course |-> "Law",
     issueDate |-> DeployTime, ipfsCid |-> "QmA"]

\* value with one field replaced by another value of that field
Changed(value, field) ==
    [value EXCEPT ![field] = CHOOSE x \in FieldValues[field] : x # value[field]]

\* keccak256, taken as collision free: the hash stands for its preimage
Keccak256(x) == <<"keccak256", x>>

\* EIP-712 encodeData of one member: a string is hashed, an atomic value
\* fills one word
EncodeField(type, v) == IF type = "string" THEN Keccak256(v) ELSE v

\* EIP-712 hashStruct: keccak256(typeHash || encodeData(value))
HashStruct(typeName, types, value) ==
    Keccak256(<<Keccak256(<<typeName, types>>)>>
              \o [i \in DOMAIN types |->
                    EncodeField(types[i].type, value[types[i].name])])

\* the EIP-712 digest: keccak256(0x1901 || domainSeparator || hashStruct)
TypedDataDigest(domain, value) ==
    Keccak256(<<"1901", HashStruct("EIP712Domain", DomainTypes, domain),
                HashStruct("Credential", CredentialTypes, value)>>)

\* signer.signTypedData(domain, types, value)
signTypedData(signer, domain, value) ==
    [signer |-> signer, digest |-> TypedDataDigest(domain, value)]

\* a wallet signing value under domain, as the frontend asks it to
SignTypedData(signer, domain, value) ==
    /\ last' = Receipt("signTypedData", signer, <<domain, value>>, Ok,
                       signTypedData(signer, domain, value))
    /\ UNCHANGED <<roles, records, log, blockNumber, blockTimestamp, calls,
                   flow>>

\* a transaction calling issueWithSignature(value, v, r, s) on the registry:
\* the contract has no such function and no fallback, so the call reverts
issueWithSignature(sender, value, sig) ==
    /\ "issueWithSignature" \notin Functions
    /\ Revert("issueWithSignature", sender, <<value, sig>>, NoFunction)

\* ------------------------------------------------- the Sign & Issue handler
\* the functions of the ABI the frontend builds its Contract object from
ABI == {"issue", "revoke", "verify", "hasRole"}

\* the files a user can select, and their SHA-256 hashes
Files == {"file1", "file2"}
sha256File(file) == IF file = "file1" THEN "h1" ELSE "h2"

\* window.ethereum: absent, present but refusing account access, or
\* present with an account
Wallets == {"none", "locked", "connected"}

\* the texts setStatus shows
ConnectFirst == "Connect MetaMask first."
EnterFields == "Enter name, course, and select a file."
Uploading == "Uploading to IPFS (this may take a moment)..."
UploadFailed == "IPFS Upload Failed"
RequestingSignature == "Requesting signature..."
IssuedTyped == "Issued with Typed Data & IPFS"
ErrorStatus == "Error"

\* the form as the user left it when clicking Sign & Issue
Clicked(wallet, studentName, course, structFile) ==
    [Idle EXCEPT !.pc = "done", !.status = flow.status, !.wallet = wallet,
                 !.studentName = studentName, !.course = course,
                 !.structFile = structFile]

\* lines 91-102: signer and network from the wallet, the file hashed, the
\* upload started
Started(f, signer, chainId) ==
    [f EXCEPT !.pc = "uploading", !.status = Uploading, !.signer = signer,
              !.chainId = chainId, !.upload = "pending",
              !.value = [docHash |-> sha256File(f.structFile)]]

\* mutant: the handler does not test the form's fields
FlowStart_unchecked(wallet, signer, chainId, studentName, course, structFile) ==
    /\ flow.pc \in {"idle", "done"}
    /\ flow' =
         LET f == Clicked(wallet, studentName, course, structFile)
         IN  IF wallet = "none"
             THEN [f EXCEPT !.status = ConnectFirst]
             ELSE IF wallet = "locked"
             THEN f
             ELSE Started(f, signer, chainId)
    /\ UNCHANGED <<roles, records, log, blockNumber, blockTimestamp, calls,
                   last>>

\* the click on Sign & Issue, up to the await of the IPFS upload: the two
\* guards, then getSigner (which throws out of the handler when the wallet
\* gives no account), getNetwork and the hashing of the file
FlowStart(wallet, signer, chainId, studentName, course, structFile) ==
    /\ flow.pc \in {"idle", "done"}
    /\ flow' =
         LET f == Clicked(wallet, studentName, course, structFile)
         IN  IF wallet = "none"
             THEN [f EXCEPT !.status = ConnectFirst]
             ELSE IF studentName = "" \/ course = "" \/ structFile = NoFile
             THEN [f EXCEPT !.status = EnterFields]
             ELSE IF wallet = "locked"
             THEN f
             ELSE Started(f, signer, chainId)
    /\ UNCHANGED <<roles, records, log, blockNumber, blockTimestamp, calls,
                   last>>

\* uploadToIPFS settles: on failure the handler shows it and returns; on
\* success it builds the value (issueDate from the browser's clock) and
\* awaits the wallet's signature
FlowUploaded(ok, ipfsCid, issueDate) ==
    /\ flow.pc = "uploading"
    /\ flow' =
         IF ~ok
         THEN [flow EXCEPT !.pc = "done", !.status = UploadFailed,
                           !.upload = "failed"]
         ELSE [flow EXCEPT !.pc = "signing", !.status = RequestingSignature,
                           !.upload = "ok", !.signature = "pending",
                           !.value = [docHash |-> flow.value.docHash,
                                      studentName |-> flow.studentName,
                                      course |-> flow.course,
                                      issueDate |-> issueDate,
                                      ipfsCid |-> ipfsCid]]
    /\ UNCHANGED <<roles, records, log, blockNumber, blockTimestamp, calls,
                   last>>

\* signTypedData settles. A rejection is caught and shown. With a signature
\* the handler calls reg.issueWithSignature; reg is built from ABI, which has
\* no issueWithSignature, so the call throws before any transaction exists
\* and the same catch shows the error.
FlowSigned(accepted) ==
    /\ flow.pc = "signing"
    /\ flow' =
         IF ~accepted
         THEN [flow EXCEPT !.pc = "done", !.status = ErrorStatus,
                           !.signature = "rejected"]
         ELSE [flow EXCEPT !.pc = "done", !.status = ErrorStatus,
                           !.signature = "signed",
                           !.sig = signTypedData(flow.signer,
                                                 Domain(flow.chainId),
                                                 flow.value)]
    /\ "issueWithSignature" \notin ABI
    /\ UNCHANGED <<roles, records, log, blockNumber, blockTimestamp, calls,
                   last>>

\* ----------------------------------------------------------- audit feed
\* the number of entries the feed shows
FeedLimit == 20

\* what e.args[3] is for an event with three arguments
Undefined == "undefined"

\* Array.prototype.sort with (a, b) => a.blockNumber - b.blockNumber from
\* block b on: ascending block number, equal elements in their given order
RECURSIVE SortByBlock(_, _)
SortByBlock(es, b) ==
    IF b > blockNumber THEN <<>>
    ELSE SelectSeq(es, LAMBDA e : e.blockNumber = b) \o SortByBlock(es, b + 1)

\* Array.prototype.reverse
Reverse(es) == [i \in 1..Len(es) |-> es[Len(es) + 1 - i]]

\* Array.prototype.slice(0, n)
Slice(es, n) == SubSeq(es, 1, IF Len(es) < n THEN Len(es) ELSE n)

\* the entry the feed shows for event e
FeedEntry(e) ==
    [name |-> e.name, hash |-> e.args[1], issuer |-> e.args[2],
     cid |-> Undefined, block |-> e.blockNumber]

\* the list loadEvents hands to setEvents
loadEvents ==
    LET issued == SelectSeq(log, LAMBDA e : e.name = "Issued")
        revoked == SelectSeq(log, LAMBDA e : e.name = "Revoked")
        all == Slice(Reverse(SortByBlock(issued \o revoked, 1)), FeedLimit)
    IN  [i \in 1..Len(all) |-> FeedEntry(all[i])]

\* a click on the button that loads the audit feed
LoadEvents ==
    /\ last' = Receipt("loadEvents", ZeroAddress, <<>>, Ok, loadEvents)
    /\ UNCHANGED <<roles, records, log, blockNumber, blockTimestamp, calls,
                   flow>>

\* --------------------------------------------------------------- the chain
\* no call has been made in the current block yet
NoCall == Receipt("none", ZeroAddress, <<>>, Ok, <<>>)

\* a new block: the number goes up by one, the timestamp strictly increases
MineBlock ==
    /\ blockNumber < MaxBlock
    /\ blockNumber' = blockNumber + 1
    /\ \E d \in 1..MaxDelta :
         blockTimestamp' = [blockTimestamp EXCEPT !.low = @ + d]
    /\ last' = NoCall
    /\ UNCHANGED <<roles, records, log, calls, flow>>

Next ==
    \/ \E s \in Addresses, a \in Addresses : addIssuer(s, a)
    \/ \E s \in Addresses, a \in Addresses : removeIssuer(s, a)
    \/ \E s \in Addresses, r \in Roles, a \in Addresses : grantRole(s, r, a)
    \/ \E s \in Addresses, r \in Roles, a \in Addresses : revokeRole(s, r, a)
    \/ \E s \in Addresses, r \in Roles, a \in Addresses : renounceRole(s, r, a)
    \/ \E s \in Addresses, h \in DocHashes : issue(s, h)
    \/ \E s \in Addresses, h \in DocHashes : revoke(s, h)
    \/ \E s \in Addresses, h \in DocHashes : CallVerify(s, h)
    \/ MineBlock

Spec == Init /\ [][Next]_vars

\* the registry driven through the signature path and the direct path
NextSig ==
    \/ \E s \in Addresses, a \in Addresses : addIssuer(s, a)
    \/ \E s \in Addresses, a \in Addresses : removeIssuer(s, a)
    \/ \E s \in Addresses, h \in DocHashes : issue(s, h)
    \/ \E s \in Addresses, signer \in Addresses, h \in DocHashes,
          c \in ChainIds, i \in 0..Len(CredentialFields) :
          LET signed == Credential(h)
              value == IF i = 0 THEN signed
                       ELSE Changed(signed, CredentialFields[i])
          IN  /\ (i = 0 \/ c = "registry chain")
              /\ issueWithSignature(s, value,
                                    signTypedData(signer, Domain(c), signed))
    \/ MineBlock

SpecSig == Init /\ [][NextSig]_vars

\* bounded sets of typed-data domains and of Credential values
Domains ==
    [name : {"CredentialRegistry", "OtherRegistry"}, version : {"1", "2"},
     chainId : ChainIds, verifyingContract : {CONTRACT_ADDRESS, ZeroAddress}]

Credentials ==
    [docHash : FieldValues.docHash, studentName : FieldValues.studentName,
     course : FieldValues.course, issueDate : FieldValues.issueDate,
     ipfsCid : FieldValues.ipfsCid]

\* wallets signing typed data
NextDigest ==
    \E signer \in Addresses, d \in Domains, v \in Credentials :
        SignTypedData(signer, d, v)

SpecDigest == Init /\ [][NextDigest]_vars

\* the registry with a user working through the Sign & Issue form
NextFlow ==
    \/ addIssuer(Admin, "B")
    \/ \E s \in Addresses, h \in DocHashes : issue(s, h)
    \/ \E w \in Wallets, s \in Addresses,
          n \in {"", "Ana"}, k \in {"", "Law"}, f \in Files \cup {NoFile} :
          FlowStart(w, s, "registry chain", n, k, f)
    \/ \E ok \in BOOLEAN, cid \in FieldValues.ipfsCid :
          FlowUploaded(ok, cid, DeployTime)
    \/ \E accepted \in BOOLEAN : FlowSigned(accepted)
    \/ MineBlock

SpecFlow == Init /\ [][NextFlow]_vars

\* the registry with the audit feed being loaded
NextFeed ==
    \/ \E s \in Addresses, h \in DocHashes : issue(s, h)
    \/ \E s \in Addresses, h \in DocHashes : revoke(s, h)
    \/ LoadEvents
    \/ MineBlock

SpecFeed == Init /\ [][NextFeed]_vars

\* the registry once its admin has made B an issuer, in the block of the
\* deployment; calls counts the transactions that follow
InitTwoIssuers ==
    /\ blockNumber = 1
    /\ blockTimestamp = [high |-> 0, low |-> DeployTime]
    /\ roles = [r \in Roles |-> IF r = ISSUER_ROLE THEN {Admin, "B"}
                                ELSE {Admin}]
    /\ records = [h \in DocHashes |-> EmptyRecord]
    /\ log = <<[name |-> "RoleGranted",
                args |-> <<DEFAULT_ADMIN_ROLE, Admin, Admin>>,
                blockNumber |-> 1, index |-> 0],
               [name |-> "RoleGranted",
                args |-> <<ISSUER_ROLE, Admin, Admin>>,
                blockNumber |-> 1, index |-> 1],
               [name |-> "RoleGranted",
                args |-> <<ISSUER_ROLE, "B", Admin>>,
                blockNumber |-> 1, index |-> 2]>>
    /\ calls = [k \in Kinds |-> 0]
    /\ last = Receipt("addIssuer", Admin, <<"B">>, Ok, <<>>)
    /\ flow = Idle

\* two issuers, either of which can lose the role
NextTwoIssuers ==
    \/ \E s \in Addresses, a \in Addresses : removeIssuer(s, a)
    \/ \E s \in Addresses, h \in DocHashes : issue(s, h)
    \/ \E s \in Addresses, h \in DocHashes : revoke(s, h)
    \/ MineBlock

SpecTwoIssuers == InitTwoIssuers /\ [][NextTwoIssuers]_vars

\* block.timestamp values of the deploying block: DeployTime, and 2^64, the
\* least positive uint256 whose low 64 bits are all zero
DeployTimes == {[high |-> 0, low |-> DeployTime], [high |-> 1, low |-> 0]}

\* the registry deployed at any of DeployTimes
InitAnyTime ==
    /\ blockNumber = 1
    /\ blockTimestamp \in DeployTimes
    /\ roles = GrantRoleIn(GrantRoleIn([r \in Roles |-> {}],
                                       DEFAULT_ADMIN_ROLE, Admin),
                           ISSUER_ROLE, Admin)
    /\ records = [h \in DocHashes |-> EmptyRecord]
    /\ log = <<[name |-> "RoleGranted",
                args |-> <<DEFAULT_ADMIN_ROLE, Admin, Admin>>,
                blockNumber |-> 1, index |-> 0],
               [name |-> "RoleGranted",
                args |-> <<ISSUER_ROLE, Admin, Admin>>,
                blockNumber |-> 1, index |-> 1]>>
    /\ calls = [k \in Kinds |-> 0]
    /\ last = Receipt("constructor", Admin, <<Admin>>, Ok, <<>>)
    /\ flow = Idle

NextAnyTime ==
    \/ \E s \in Addresses, h \in DocHashes : issue(s, h)
    \/ \E s \in Addresses, h \in DocHashes : revoke(s, h)
    \/ \E s \in Addresses, h \in DocHashes : CallVerify(s, h)
    \/ MineBlock

SpecAnyTime == InitAnyTime /\ [][NextAnyTime]_vars

\* ================================================================ properties
\* the step is a call of function op
Called(op) ==
    /\ blockNumber' = blockNumber
    /\ (last' # last \/ calls' # calls \/ log' # log)
    /\ last'.op = op

\* the credential events, as reg.filters.Issued() / Revoked() select them
EventLog == SelectSeq(log, LAMBDA e : e.name \in {"Issued", "Revoked"})

\* the entry a step appended to the contract's log
Appended == log'[Len(log')]

\* log position: block number first, then index inside the block
Before(e, f) ==
    \/ e.blockNumber < f.blockNumber
    \/ (e.blockNumber = f.blockNumber /\ e.index < f.index)

\* C1: a verify(docHash) that follows a successful issue(docHash) at time t
\* by an ISSUER holder returns (true, false, t, caller).
C1_IssueThenVerify ==
    [][(/\ last.op = "issue"
        /\ last.status = Ok
        /\ Called("verify")
        /\ last'.args = last.args)
       => (/\ hasRole(ISSUER_ROLE, last.sender)
           /\ blockTimestamp.high = 0
           /\ last'.ret = <<TRUE, FALSE, blockTimestamp.low, last.sender>>)]_vars

C1_Witness ==
    /\ last.op = "verify"
    /\ last.ret = <<TRUE, FALSE, blockTimestamp.low, "B">>
    /\ calls["credential"] = 1

\* C2 as stated: issue of an already issued docHash fails with AlreadyIssued
\* whoever the caller is, leaving records and log unchanged.
C2_AnyCallerAlreadyIssued ==
    [][(Called("issue") /\ records[last'.args[1]].issuedAt # 0)
       => (/\ last'.status = AlreadyIssued
           /\ UNCHANGED <<records, log>>)]_vars

\* C2 amended: issue of an already issued docHash (Issued or Revoked) changes
\* no record and appends no event; it fails with AlreadyIssued when the caller
\* holds ISSUER and with Unauthorized when it does not.
C2_ReissueFails ==
    [][(Called("issue") /\ records[last'.args[1]].issuedAt # 0)
       => (/\ last'.status = IF hasRole(ISSUER_ROLE, last'.sender)
                             THEN AlreadyIssued ELSE Unauthorized
           /\ UNCHANGED <<records, log, roles>>)]_vars

C2_Witness ==
    /\ last.op = "issue"
    /\ last.status = AlreadyIssued
    /\ records[last.args[1]].revoked

\* the error the specification recommends for a second revoke
AlreadyRevoked == "already revoked"

\* C3: revoke of an already Revoked record by an ISSUER holder fails with
\* AlreadyRevoked, changes nothing and appends no second Revoked event.
C3_SecondRevokeFails ==
    [][(/\ Called("revoke")
        /\ hasRole(ISSUER_ROLE, last'.sender)
        /\ records[last'.args[1]].revoked)
       => (/\ last'.status = AlreadyRevoked
           /\ UNCHANGED <<records, log>>)]_vars

\* C4: issue/revoke by a caller without ISSUER fails with Unauthorized and
\* changes no record, role or log entry; every issuer written to a record and
\* every actor of an Issued/Revoked event holds ISSUER when it is written.
C4_OnlyIssuers ==
    [][/\ ((Called("issue") \/ Called("revoke"))
            /\ ~hasRole(ISSUER_ROLE, last'.sender))
          => (/\ last'.status = Unauthorized
              /\ UNCHANGED <<records, log, roles>>)
       /\ \A h \in DocHashes :
            records'[h] # records[h]
              => (/\ last'.sender \in roles[ISSUER_ROLE]
                  /\ (records'[h].issuer # records[h].issuer
                         => records'[h].issuer = last'.sender))
       /\ (Len(log') > Len(log) /\ Appended.name \in {"Issued", "Revoked"})
          => (/\ Appended.args[2] \in roles[ISSUER_ROLE]
              /\ Appended.args[2] = last'.sender)]_vars

C4_Witness ==
    /\ last.op \in {"issue", "revoke"}
    /\ last.status = Unauthorized
    /\ ~hasRole(ISSUER_ROLE, last.sender)
    /\ Len(EventLog) > 0

\* C5: issue/revoke is Unauthorized exactly when the caller is not in the
\* current ISSUER set; a successful removeIssuer(X) takes X out of it at once,
\* a successful addIssuer(X) puts X into it at once, and X enters it by no
\* other step than a successful grant.
C5_CurrentRoleTable ==
    [][/\ (Called("issue") \/ Called("revoke"))
          => (last'.status = Unauthorized
                <=> ~hasRole(ISSUER_ROLE, last'.sender))
       /\ (Called("removeIssuer") /\ last'.status = Ok)
          => last'.args[1] \notin roles'[ISSUER_ROLE]
       /\ (Called("addIssuer") /\ last'.status = Ok)
          => last'.args[1] \in roles'[ISSUER_ROLE]
       /\ \A x \in Addresses :
            (x \notin roles[ISSUER_ROLE] /\ x \in roles'[ISSUER_ROLE])
              => (/\ Called("addIssuer") \/ Called("grantRole")
                  /\ last'.status = Ok
                  /\ last'.args[Len(last'.args)] = x)]_vars

C5_Witness ==
    /\ last.op \in {"issue", "revoke"}
    /\ last.status = Unauthorized
    /\ \E i \in DOMAIN log :
         /\ log[i].name = "RoleRevoked"
         /\ log[i].args[1] = ISSUER_ROLE
         /\ log[i].args[2] = last.sender
         /\ log[i].args[3] # last.sender

\* C6: addIssuer, removeIssuer, grantRole and revokeRole by a caller without
\* ADMIN fail with Unauthorized and leave the role table unchanged.
C6_AdminOnly ==
    [][(/\ \/ Called("addIssuer") \/ Called("removeIssuer")
            \/ Called("grantRole") \/ Called("revokeRole")
        /\ ~hasRole(DEFAULT_ADMIN_ROLE, last'.sender))
       => (/\ last'.status = Unauthorized
           /\ UNCHANGED <<roles, records, log>>)]_vars

C6_Witness ==
    /\ last.op \in {"addIssuer", "removeIssuer"}
    /\ last.status = Unauthorized
    /\ hasRole(ISSUER_ROLE, last.sender)
    /\ ~hasRole(DEFAULT_ADMIN_ROLE, last.sender)

\* C7 as stated: after N successful issue, revoke, grant and revoke-role
\* calls the event log has exactly N entries.
C7_OneEntryPerMutation == Len(EventLog) = TxCount

\* the Issued/Revoked entry a successful issue or revoke call must append
EntryOf(r, e) ==
    /\ e.name = IF r.op = "issue" THEN "Issued" ELSE "Revoked"
    /\ e.args = <<r.args[1], r.sender, Uint64(blockTimestamp)>>
    /\ e.blockNumber = blockNumber

\* C7 amended: after N successful issue and revoke calls the Issued/Revoked
\* event log has exactly N entries, each appended at the end by its call, at
\* strictly increasing log positions; role calls append no such entry.
C7_OneEntryPerTransition ==
    [][/\ Len(EventLog') = calls'["credential"]
       /\ \A i, j \in DOMAIN EventLog' :
            i < j => Before(EventLog'[i], EventLog'[j])
       /\ IF (Called("issue") \/ Called("revoke")) /\ last'.status = Ok
          THEN /\ Len(EventLog') = Len(EventLog) + 1
               /\ SubSeq(EventLog', 1, Len(EventLog)) = EventLog
               /\ EntryOf(last', EventLog'[Len(EventLog')])
          ELSE EventLog' = EventLog]_vars

C7_Witness ==
    /\ Len(EventLog) = 2
    /\ calls["role"] = 1
    /\ EventLog[1].blockNumber = EventLog[2].blockNumber

\* C10: once a docHash issued at time t by issuer I has been revoked,
\* verify returns (true, true, t, I).
C10_RevokeKeepsIssuance ==
    \A i, j \in DOMAIN log :
        (/\ log[i].name = "Issued"
         /\ log[j].name = "Revoked"
         /\ log[i].args[1] = log[j].args[1])
        => verify(log[i].args[1])
             = <<TRUE, TRUE, log[i].args[3], log[i].args[2]>>

C10_Witness ==
    /\ last.op = "verify"
    /\ last.ret[1]
    /\ last.ret[2]
    /\ \E j \in DOMAIN log :
         /\ log[j].name = "Revoked"
         /\ log[j].args[1] = last.args[1]
         /\ log[j].args[2] # last.ret[4]
         /\ log[j].args[3] > last.ret[3]


\* ------------------------------------------------- signature path claims
\* the identity ecrecover yields for a digest the signature was not made over
Unrelated == "0xE"

\* the identity recovered from sig over the digest of value under the
\* registry's own domain
Recovered(value, sig) ==
    IF sig.digest = TypedDataDigest(Domain("registry chain"), value)
    THEN sig.signer ELSE Unrelated

\* the storage reference a record holds, if it holds one
HasStorageRef(r, ref) == "ipfsCid" \in DOMAIN r /\ r.ipfsCid = ref

\* C8: issueWithSignature(P, sig) with sig made over P under the registry's
\* domain by an ISSUER holder S, for an unissued P.docHash, succeeds and
\* stores issuer = S and storageRef = P.storageRef.
C8_SignedIssueSucceeds ==
    [][(/\ Called("issueWithSignature")
        /\ Recovered(last'.args[1], last'.args[2]) \in roles[ISSUER_ROLE]
        /\ records[last'.args[1].docHash].issuedAt = 0)
       => (/\ last'.status = Ok
           /\ records'[last'.args[1].docHash].issuer
                = Recovered(last'.args[1], last'.args[2])
           /\ HasStorageRef(records'[last'.args[1].docHash],
                            last'.args[1].ipfsCid))]_vars

\* C9: issueWithSignature(P, sig) is rejected with Unauthorized, without any
\* state change, when the identity recovered from sig over P does not hold
\* ISSUER (in particular when a field of P was changed after signing).
C9_BadSignatureUnauthorized ==
    [][(/\ Called("issueWithSignature")
        /\ Recovered(last'.args[1], last'.args[2]) \notin roles[ISSUER_ROLE])
       => (/\ last'.status = Unauthorized
           /\ UNCHANGED <<roles, records, log>>)]_vars


\* ------------------------------------------------------- lifecycle claims
\* C11: revoke of a never issued docHash by a caller holding ISSUER fails
\* with NotIssued; the record stays Unissued with revoked = false, and no
\* record, role or log entry changes.
C11_RevokeUnissuedFails ==
    [][(/\ Called("revoke")
        /\ hasRole(ISSUER_ROLE, last'.sender)
        /\ records[last'.args[1]].issuedAt = 0)
       => (/\ last'.status = NotIssued
           /\ records'[last'.args[1]] = EmptyRecord
           /\ UNCHANGED <<records, log, roles>>)]_vars

C11_Witness ==
    /\ last.op = "revoke"
    /\ last.status = NotIssued
    /\ last.sender # Admin
    /\ records[last.args[1]] = EmptyRecord

\* C12: in every reachable state, a record with issuedAt = 0 has
\* revoked = false.
C12_UnissuedNotRevoked ==
    \A h \in DocHashes : records[h].issuedAt = 0 => ~records[h].revoked

C12_Witness ==
    \E h, g \in DocHashes :
        /\ records[h].issuedAt = 0
        /\ ~records[h].revoked
        /\ records[g].revoked

\* C13: once a record's issuedAt is non-zero, no step changes its issuedAt
\* or its issuer.
C13_IssuanceImmutable ==
    [][\A h \in DocHashes :
         records[h].issuedAt # 0
           => (/\ records'[h].issuedAt = records[h].issuedAt
               /\ records'[h].issuer = records[h].issuer)]_vars

C13_Witness ==
    \E h \in DocHashes :
        /\ records[h].issuedAt # 0
        /\ records[h].issuedAt < Uint64(blockTimestamp)
        /\ records[h].revoked
        /\ ~hasRole(ISSUER_ROLE, records[h].issuer)

\* C14: once a record has revoked = true, it has revoked = true in every
\* later state.
C14_RevokedMonotonic ==
    [][\A h \in DocHashes : records[h].revoked => records'[h].revoked]_vars

C14_Witness ==
    /\ last.op = "revoke"
    /\ last.status = Ok
    /\ Cardinality({i \in DOMAIN log :
                      /\ log[i].name = "Revoked"
                      /\ log[i].args[1] = last.args[1]}) = 2
    /\ records[last.args[1]].revoked

\* C15: verify never fails and changes no record, role or log entry, for
\* every docHash and caller; for a never issued docHash it returns
\* (false, false, 0, zero issuer, empty storageRef).
C15_VerifyTotalPure ==
    [][Called("verify")
       => (/\ last'.status = Ok
           /\ UNCHANGED <<roles, records, log, calls, blockNumber,
                          blockTimestamp>>
           /\ (records[last'.args[1]].issuedAt = 0
                 => last'.ret = <<FALSE, FALSE, 0, ZeroAddress, "">>))]_vars

\* C18: verify of an issued docHash returns five components, the fifth
\* being the storageRef bound at issuance: the empty string for a credential
\* issued through issue(docHash).
C18_VerifyFiveComponents ==
    [][(Called("verify") /\ records[last'.args[1]].issuedAt # 0)
       => (/\ Len(last'.ret) = 5
           /\ last'.ret[5] = "")]_vars

\* the Issued / Revoked events of docHash h, in log order
EventsOf(name, h) ==
    SelectSeq(log, LAMBDA e : e.name = name /\ e.args[1] = h)

\* C16: of two issue requests for one docHash by ISSUER holders, applied in
\* either order, the first applied succeeds and the later one fails with
\* AlreadyIssued; the record keeps the issuer and issuedAt of the first, and
\* the log has exactly one Issued event for the docHash.
C16_OneIssueWins ==
    [][/\ (/\ Called("issue")
            /\ hasRole(ISSUER_ROLE, last'.sender)
            /\ records[last'.args[1]].issuedAt # 0)
          => (/\ last'.status = AlreadyIssued
              /\ UNCHANGED <<records, log>>)
       /\ (/\ Called("issue")
            /\ hasRole(ISSUER_ROLE, last'.sender)
            /\ records[last'.args[1]].issuedAt = 0)
          => (/\ last'.status = Ok
              /\ records'[last'.args[1]].issuer = last'.sender
              /\ records'[last'.args[1]].issuedAt = Uint64(blockTimestamp))
       /\ \A h \in DocHashes :
            /\ Len(EventsOf("Issued", h)') <= 1
            /\ records'[h].issuedAt # 0
                 => (/\ Len(EventsOf("Issued", h)') = 1
                     /\ EventsOf("Issued", h)'[1].args
                          = <<h, records'[h].issuer, records'[h].issuedAt>>)]_vars

C16_Witness ==
    /\ last.op = "issue"
    /\ last.status = AlreadyIssued
    /\ hasRole(ISSUER_ROLE, records[last.args[1]].issuer)
    /\ last.sender # records[last.args[1]].issuer
    /\ records[last.args[1]].issuedAt = Uint64(blockTimestamp)
    /\ ~records[last.args[1]].revoked

\* C17: in every reachable state a docHash has issuedAt # 0 exactly when the
\* log holds an Issued event for it, which then carries the record's issuer
\* and issuedAt, and has revoked = true exactly when the log holds a Revoked
\* event for it; a step changes a record exactly when it appends an Issued
\* or Revoked event for that docHash.
C17_StateMatchesLog ==
    [][/\ \A h \in DocHashes :
            /\ records'[h].issuedAt # 0 <=> Len(EventsOf("Issued", h)') > 0
            /\ \A i \in DOMAIN EventsOf("Issued", h)' :
                 EventsOf("Issued", h)'[i].args
                   = <<h, records'[h].issuer, records'[h].issuedAt>>
            /\ records'[h].revoked <=> Len(EventsOf("Revoked", h)') > 0
            /\ (records'[h] # records[h])
                 => (\/ Len(EventsOf("Issued", h)')
                         = Len(EventsOf("Issued", h)) + 1
                     \/ Len(EventsOf("Revoked", h)')
                         = Len(EventsOf("Revoked", h)) + 1)
       /\ (EventLog' # EventLog)
          => (/\ last'.status = Ok
              /\ last'.op \in {"issue", "revoke"}
              /\ records'[last'.args[1]].revoked = (last'.op = "revoke"))
       /\ (last'.status # Ok) => UNCHANGED <<roles, records, log>>]_vars

C17_Witness ==
    \E h, g \in DocHashes :
        /\ h # g
        /\ records[h].revoked
        /\ Len(EventsOf("Revoked", h)) = 1
        /\ records[g].issuedAt # 0
        /\ ~records[g].revoked
        /\ records[g].issuedAt # records[h].issuedAt

\* C19: right after construction with admin A, A and nobody else holds
\* ADMIN and ISSUER, every docHash is Unissued and there is no Issued or
\* Revoked event; while A holds ADMIN, A's addIssuer(X) succeeds and puts X
\* into ISSUER, and A's removeIssuer(X) succeeds and takes X out of it.
C19_Bootstrap ==
    [][/\ last.op = "constructor"
          => (/\ roles = [r \in Roles |-> {Admin}]
              /\ records = [h \in DocHashes |-> EmptyRecord]
              /\ EventLog = <<>>
              /\ TxCount = 0)
       /\ (/\ Called("addIssuer")
            /\ last'.sender = Admin
            /\ hasRole(DEFAULT_ADMIN_ROLE, Admin))
          => (/\ last'.status = Ok
              /\ roles'[ISSUER_ROLE] = roles[ISSUER_ROLE] \cup {last'.args[1]}
              /\ roles'[DEFAULT_ADMIN_ROLE] = roles[DEFAULT_ADMIN_ROLE])
       /\ (/\ Called("removeIssuer")
            /\ last'.sender = Admin
            /\ hasRole(DEFAULT_ADMIN_ROLE, Admin))
          => (/\ last'.status = Ok
              /\ roles'[ISSUER_ROLE] = roles[ISSUER_ROLE] \ {last'.args[1]}
              /\ roles'[DEFAULT_ADMIN_ROLE] = roles[DEFAULT_ADMIN_ROLE])]_vars

C19_Witness ==
    /\ last.op = "removeIssuer"
    /\ last.status = Ok
    /\ last.sender = Admin
    /\ last.args[1] # Admin
    /\ calls["role"] = 2
    /\ \E i \in DOMAIN log :
         /\ log[i].name = "RoleRevoked"
         /\ log[i].args = <<ISSUER_ROLE, last.args[1], Admin>>

\* C20: over the bounded domains and Credential values, the digest of
\* (domain, value) is the same whenever it is computed again, and no other
\* domain or value (differing in any field) has the same digest.
C20_DigestInjective ==
    last.op = "signTypedData"
      => \A d \in Domains, v \in Credentials :
           (TypedDataDigest(d, v) = last.ret.digest) <=> (<<d, v>> = last.args)

C20_Witness ==
    /\ last.op = "signTypedData"
    /\ last.args[1].chainId = "other chain"
    /\ last.args[2] = Changed(Credential("h2"), "ipfsCid")
    /\ last.ret.digest = TypedDataDigest(last.args[1], last.args[2])


\* the Issued and Revoked events concerning docHash h, in log order
History(h) == SelectSeq(EventLog, LAMBDA e : e.args[1] = h)

\* C21: for every docHash, the events concerning it form a prefix of
\* <Issued, Revoked>: at most one Issued event, at most one Revoked event,
\* and the Revoked event only after the Issued one.
C21_HistoryIsPrefix ==
    \A h \in DocHashes :
        /\ Len(History(h)) <= 2
        /\ Len(History(h)) >= 1 => History(h)[1].name = "Issued"
        /\ Len(History(h)) = 2 => History(h)[2].name = "Revoked"

\* C24: the feed loadEvents builds lists the (at most FeedLimit) most recent
\* Issued and Revoked events newest first: the reverse of the order in which
\* the transitions were applied, also for transitions of one block.
C24_FeedNewestFirst ==
    last.op = "loadEvents"
      => last.ret = Slice(Reverse([i \in 1..Len(EventLog) |->
                                     FeedEntry(EventLog[i])]), FeedLimit)

\* C25: revoke(docHash) by a holder Y of ISSUER succeeds on an Issued record
\* whose issuer is another identity X, whether or not X still holds ISSUER:
\* the record gets revoked = true and keeps issuer X and its issuedAt, and
\* the Revoked event appended names Y.
C25_AnyIssuerRevokes ==
    [][(/\ Called("revoke")
        /\ hasRole(ISSUER_ROLE, last'.sender)
        /\ records[last'.args[1]].issuedAt # 0
        /\ ~records[last'.args[1]].revoked
        /\ records[last'.args[1]].issuer # last'.sender)
       => (/\ last'.status = Ok
           /\ records'[last'.args[1]]
                = [records[last'.args[1]] EXCEPT !.revoked = TRUE]
           /\ Len(log') = Len(log) + 1
           /\ Appended.name = "Revoked"
           /\ Appended.args = <<last'.args[1], last'.sender,
                                Uint64(blockTimestamp)>>)]_vars

C25_Witness ==
    /\ last.op = "revoke"
    /\ last.status = Ok
    /\ records[last.args[1]].revoked
    /\ records[last.args[1]].issuer # last.sender
    /\ ~hasRole(ISSUER_ROLE, records[last.args[1]].issuer)
    /\ log[Len(log)].name = "Revoked"
    /\ log[Len(log)].args[2] = last.sender

\* C26: a successful issue(h) or revoke(h) changes no record but that of h
\* and no role; a successful addIssuer(X) or removeIssuer(X) changes nothing
\* but whether X holds ISSUER: every record, those X issued included, and
\* the holders of ADMIN stay as they were.
C26_Frame ==
    [][/\ ((Called("issue") \/ Called("revoke")) /\ last'.status = Ok)
          => (/\ \A g \in DocHashes \ {last'.args[1]} :
                   records'[g] = records[g]
              /\ roles' = roles)
       /\ ((Called("addIssuer") \/ Called("removeIssuer"))
            /\ last'.status = Ok)
          => (/\ records' = records
              /\ roles'[DEFAULT_ADMIN_ROLE] = roles[DEFAULT_ADMIN_ROLE]
              /\ \A x \in Addresses \ {last'.args[1]} :
                   hasRole(ISSUER_ROLE, x)' <=> hasRole(ISSUER_ROLE, x))]_vars

C26_Witness ==
    /\ last.op = "removeIssuer"
    /\ last.status = Ok
    /\ ~hasRole(ISSUER_ROLE, last.args[1])
    /\ hasRole(DEFAULT_ADMIN_ROLE, last.args[1])
    /\ \E h \in DocHashes :
         /\ records[h].issuer = last.args[1]
         /\ records[h].issuedAt # 0
    /\ \E g \in DocHashes : records[g].issuedAt = 0

\* C27: a successful issue(docHash) leaves the record with issuedAt # 0
\* whatever block.timestamp is, so that verify reports it issued and the
\* docHash has been issued once only.
C27_IssueSetsIssuedAt ==
    [][\A h \in DocHashes :
         (Called("issue") /\ last'.status = Ok /\ last'.args = <<h>>)
           => (/\ records'[h].issuedAt # 0
               /\ verify(h)'[1]
               /\ Len(EventsOf("Issued", h)') = 1)]_vars

\* ----------------------------------------------------- Sign & Issue claims
\* C22: when the Sign & Issue handler, run with a connected wallet, a name,
\* a course and a file, has had its upload succeed and has got the user's
\* signature, it has submitted issueWithSignature(value, v, r, s) to the
\* registry; if the signer holds ISSUER and the hash is not yet issued, it
\* ends with the credential Issued and the status IssuedTyped.
C22_SignAndIssueSucceeds ==
    [][(/\ flow.pc = "signing"
        /\ flow.upload = "ok"
        /\ flow'.pc = "done"
        /\ flow'.signature = "signed")
       => (/\ flow'.tx # NoTx
           /\ (/\ hasRole(ISSUER_ROLE, flow.signer)
               /\ records[flow.value.docHash].issuedAt = 0)
              => (/\ flow'.status = IssuedTyped
                  /\ records'[flow.value.docHash].issuedAt # 0))]_vars

\* the handler was run without a wallet account, with a field missing, or
\* has had its upload fail or its signature request rejected
Failed(f) ==
    \/ f.wallet # "connected"
    \/ f.studentName = "" \/ f.course = "" \/ f.structFile = NoFile
    \/ f.upload = "failed"
    \/ f.signature = "rejected"

\* C23: a step of the Sign & Issue handler in which the wallet turns out not
\* connected, a field missing, the upload failed or the signature rejected
\* ends the handler without a transaction, a pending upload or a pending
\* signature request, and leaves records, roles and event log unchanged.
C23_FailedFlowSubmitsNothing ==
    [][(flow' # flow /\ Failed(flow'))
       => (/\ flow'.pc = "done"
           /\ flow'.tx = NoTx
           /\ flow'.signature \in {"none", "rejected"}
           /\ flow'.sig = NoSig
           /\ UNCHANGED <<roles, records, log, calls, last>>)]_vars

C23_Witness ==
    /\ flow.pc = "done"
    /\ flow.signature = "rejected"
    /\ flow.tx = NoTx
    /\ hasRole(ISSUER_ROLE, flow.signer)
    /\ records[flow.value.docHash].issuedAt = 0
    /\ \E h \in DocHashes : records[h].issuedAt # 0

====
